---- MODULE Spec2Model ----
(***************************************************************************)
(* State-machine model of the ToDo backend (src/backend/app.py): the Flask *)
(* handlers over one DynamoDB table keyed by (user_id, task_id), and the   *)
(* overdue mail notifier.                                                  *)
(*                                                                         *)
(* Encoding of values.  An item, a request body and a bulk op are sparse   *)
(* mappings (functions whose DOMAIN is the set of keys present).  String   *)
(* attributes are strings, JSON null being the marker Null.  The `sort`    *)
(* attribute is <<n>> for the number n and <<>> for JSON null.  Times      *)
(* (now_iso(), time.time()) are readings of the integer `clock`; one       *)
(* clock unit is 10^9 ms, so that the 1e18 of list_tasks is 10^9 units.    *)
(* A due_date is one of a few strings, parsed by a table.                  *)
(*                                                                         *)
(* Granularity.  create, list, update, delete and bulk each make their     *)
(* store calls in one step; notify_overdue takes one step for its query    *)
(* and send and one step per item it marks, so that other requests         *)
(* interleave with the marking.  One notify_overdue runs at a time.  The   *)
(* sort values of payloads are numbers or null.                            *)
(***************************************************************************)
EXTENDS Integers, Sequences, FiniteSets, TLC

VARIABLES
    table,      \* the DynamoDB table: a set of items (leader copy)
    replica,    \* the copy an eventually consistent read is served from; it
                \* lags the table by at most the last write
    clock,      \* wall clock
    nreq,       \* number of HTTP requests received so far
    resp,       \* the last HTTP response sent
    deleted,    \* history: keys of the items a delete_item call has removed
    mail,       \* history: the last call of _send_overdue_email
    notify      \* the notify_overdue invocation in flight

vars == <<table, replica, clock, nreq, resp, deleted, mail, notify>>

\* ---------------------------------------------------------------- bounds
MaxClock == 3
MaxRequests == 3

\* ------------------------------------------------------------- constants
BulkLimit == 50
MissingSortKey == 1000000000

\* ---------------------------------------------------------------- values
Null == "<null>"
NonString == "<number>"

Restrict(f, S) == [k \in S |-> f[k]]
Without(f, S) == Restrict(f, DOMAIN f \ S)
GetOr(f, k, d) == IF k \in DOMAIN f THEN f[k] ELSE d
One(k, v) == [x \in {k} |-> v]
Empty == <<>>

\* ------------------------------------------------------------ time, ISO
ReplaceZ(s) ==
    CASE s = "T1Z" -> "T1+00:00"
      [] OTHER -> s

FromIsoFormat(s) ==
    CASE s = "T1+00:00" -> <<1>>
      [] s = "T2+00:00" -> <<2>>
      [] OTHER -> <<>>

parse_iso(s) == FromIsoFormat(ReplaceZ(s))

is_overdue(due_str, ref) ==
    IF parse_iso(due_str) = <<>> THEN FALSE ELSE parse_iso(due_str)[1] < ref

\* ------------------------------------------------------------ the store
Has(t, o, id) == \E it \in t : it.user_id = o /\ it.task_id = id
Get(t, o, id) == CHOOSE it \in t : it.user_id = o /\ it.task_id = id

put_item(t, item) ==
    {it \in t : ~(it.user_id = item.user_id /\ it.task_id = item.task_id)} \cup {item}

delete_item(t, o, id) == {it \in t : ~(it.user_id = o /\ it.task_id = id)}

\* UpdateItem without a ConditionExpression: edits the item, or creates it
\* from the key when there is none.
UpdatedItem(t, o, id, spec) ==
    LET old == IF Has(t, o, id) THEN Get(t, o, id)
               ELSE [k \in {"user_id", "task_id"} |-> IF k = "user_id" THEN o ELSE id]
    IN  Without(spec.set @@ old, spec.remove)

update_item(t, o, id, spec) == put_item(t, UpdatedItem(t, o, id, spec))

\* Query by partition key: the owner's items in sort-key (task_id) order.
RECURSIVE InIdOrder(_)
InIdOrder(S) ==
    IF S = {} THEN <<>>
    ELSE LET lo == CHOOSE it \in S : \A other \in S : it.task_id <= other.task_id
         IN  <<lo>> \o InIdOrder(S \ {lo})

query(t, o) == InIdOrder({it \in t : it.user_id = o})

\* ------------------------------------------------------- update builder
\* Recognised with the key attributes among the fields a payload may set.
Recognised_WithKeys ==
    {"title", "status", "due_date", "parent_id", "details", "sort", "user_id", "task_id"}

Recognised == {"title", "status", "due_date", "parent_id", "details", "sort"}
Removable == {"due_date", "parent_id", "details"}

\* RemoveKeys testing for "" only.
RemoveKeys_EmptyOnly(payload) ==
    {k \in Removable \cap DOMAIN payload : payload[k] = ""}

RemoveKeys(payload) ==
    {k \in Removable \cap DOMAIN payload : payload[k] \in {Null, ""}}

SetKeys(payload) == (Recognised \cap DOMAIN payload) \ RemoveKeys(payload)

\* update_spec_from_payload letting a payload's updated_at through.
update_spec_from_payload_ClientStamp(payload, now) ==
    IF SetKeys(payload) = {} /\ RemoveKeys(payload) = {}
    THEN [ok |-> FALSE]
    ELSE [ok |-> TRUE,
          set |-> Restrict(payload, (SetKeys(payload) \cup {"updated_at"}) \cap DOMAIN payload)
                  @@ One("updated_at", now),
          remove |-> RemoveKeys(payload)]

\* _update_spec_from_payload: [ok |-> FALSE] is the None it returns.
\* Decimal(str(v)) of a JSON number v is the same number; null stays null.
update_spec_from_payload(payload, now) ==
    IF SetKeys(payload) = {} /\ RemoveKeys(payload) = {}
    THEN [ok |-> FALSE]
    ELSE [ok |-> TRUE,
          set |-> One("updated_at", now) @@ Restrict(payload, SetKeys(payload)),
          remove |-> RemoveKeys(payload)]

\* ------------------------------------------------------------ list order
\* float(x.get("sort", 1e18)); float(None) raises TypeError.
SortIsNumber(it) == ~("sort" \in DOMAIN it /\ it.sort = <<>>)
SortKey(it) == IF "sort" \in DOMAIN it THEN it.sort[1] ELSE MissingSortKey

\* sorted(): stable, ascending by key.
RECURSIVE InsertByKey(_, _)
InsertByKey(s, x) ==
    IF s = <<>> THEN <<x>>
    ELSE IF SortKey(x) < SortKey(s[Len(s)])
         THEN InsertByKey(SubSeq(s, 1, Len(s) - 1), x) \o <<s[Len(s)]>>
         ELSE s \o <<x>>

RECURSIVE sorted(_)
sorted(s) ==
    IF s = <<>> THEN <<>>
    ELSE InsertByKey(sorted(SubSeq(s, 1, Len(s) - 1)), s[Len(s)])

\* ------------------------------------------------------ overdue targets
Truthy(f, k) == k \in DOMAIN f /\ f[k] \notin {Null, ""}

IsTarget(it, now) ==
    /\ Truthy(it, "due_date")
    /\ GetOr(it, "status", Null) \in {"open", "overdue"}
    /\ is_overdue(it.due_date, now)

collect_overdue_targets(items, now) == SelectSeq(items, LAMBDA it : IsTarget(it, now))

\* ---------------------------------------------------------------- Init
Idle == [pc |-> "idle"]

\* An HTTP response, with the request it answers: the operation, the owner
\* (X-User-Sub) and the path parameter or body.
Reply(n, op, o, arg, code, body) ==
    [req |-> n, op |-> op, owner |-> o, arg |-> arg, code |-> code, body |-> body]

Init ==
    /\ table = {}
    /\ replica = {}
    /\ clock = 2
    /\ nreq = 0
    /\ resp = Reply(0, "none", "", "", 0, "")
    /\ deleted = {}
    /\ mail = [req |-> 0, outcome |-> "none", ids |-> {}]
    /\ notify = Idle

\* --------------------------------------------------------------- handlers
\* create_task
NewItem(o, id, body, now) ==
    [k \in {"user_id"} |-> o] @@ [k \in {"task_id"} |-> id]
    @@ One("title", GetOr(body, "title", ""))
    @@ One("status", GetOr(body, "status", "open"))
    @@ One("updated_at", now)
    @@ One("sort", <<now>>)
    @@ Restrict(body, {k \in Removable : Truthy(body, k)})

\* uuid.uuid4(): an id no item has or had.
Fresh(id) == (\A it \in table : it.task_id # id) /\ (\A k \in deleted : k[2] # id)

Create(o, id, body) ==
    /\ nreq < MaxRequests
    /\ Fresh(id)
    /\ table' = put_item(table, NewItem(o, id, body, clock))
    /\ resp' = Reply(nreq + 1, "create", o, body, 201, NewItem(o, id, body, clock))
    /\ replica' = table
    /\ nreq' = nreq + 1
    /\ UNCHANGED <<clock, deleted, mail, notify>>

\* list_tasks: a ConsistentRead query, then sorted() and _to_jsonable (which
\* turns an integral Decimal into the equal int).
List(o) ==
    /\ nreq < MaxRequests
    /\ nreq' = nreq + 1
    /\ resp' = IF \A it \in table : it.user_id = o => SortIsNumber(it)
               THEN Reply(nreq + 1, "list", o, "", 200, sorted(query(table, o)))
               ELSE Reply(nreq + 1, "list", o, "", 500, "TypeError")
    /\ UNCHANGED <<table, replica, clock, deleted, mail, notify>>

\* update_task.  update_item is called with no ConditionExpression, so the
\* store never raises ConditionalCheckFailedException; any other ClientError
\* (fault) is re-raised: HTTP 500.
UpdateArg(tid, body) == [id |-> tid, payload |-> body]

Update(o, tid, body, fault) ==
    /\ nreq < MaxRequests
    /\ nreq' = nreq + 1
    /\ LET spec == update_spec_from_payload(body, clock) IN
       IF ~spec.ok
       THEN /\ resp' = Reply(nreq + 1, "update", o, UpdateArg(tid, body), 400, "no fields")
            /\ UNCHANGED <<table, replica>>
       ELSE IF fault
       THEN /\ resp' = Reply(nreq + 1, "update", o, UpdateArg(tid, body), 500, "ClientError")
            /\ UNCHANGED <<table, replica>>
       ELSE /\ table' = update_item(table, o, tid, spec)
            /\ replica' = table
            /\ resp' = Reply(nreq + 1, "update", o, UpdateArg(tid, body), 200, UpdatedItem(table, o, tid, spec))
    /\ UNCHANGED <<clock, deleted, mail, notify>>

\* delete_task
Delete(o, tid) ==
    /\ nreq < MaxRequests
    /\ nreq' = nreq + 1
    /\ table' = delete_item(table, o, tid)
    /\ replica' = table
    /\ deleted' = IF Has(table, o, tid) THEN deleted \cup {<<o, tid>>} ELSE deleted
    /\ resp' = Reply(nreq + 1, "delete", o, tid, 204, "")
    /\ UNCHANGED <<clock, mail, notify>>

\* ------------------------------------------------------------ bulk_tasks
\* (op.get("action") or ""), before .lower()
RawAction(op) ==
    IF "action" \in DOMAIN op /\ op.action \notin {Null, ""} THEN op.action ELSE ""

Lower(a) ==
    CASE a = "DELETE" -> "delete"
      [] a = "Patch" -> "patch"
      [] OTHER -> a

\* op.get("payload") or {}, and the "status" shorthand.  A bare JSON string
\* s is encoded as [bare |-> s].
IsBare(p) == DOMAIN p = {"bare"}
OpPayload(op, act) ==
    LET p == GetOr(op, "payload", Empty)
    IN  IF act = "status" /\ IsBare(p) THEN One("status", p.bare) ELSE p

Entry(i, op, act) ==
    [k \in {"i"} |-> i] @@ One("action", act) @@ Restrict(op, {"id"} \cap DOMAIN op)

\* One pass of the for loop over ops[i], from the accumulated state st =
\* [t, del, results, errors, crashed]; faults are the indexes whose store
\* call raises.
BulkOp(st, o, i, op, faults, now) ==
    LET act == Lower(RawAction(op))
        err == [st EXCEPT !.errors = Append(@, Entry(i, op, act))]
    IN
    IF RawAction(op) = NonString
    THEN [st EXCEPT !.crashed = TRUE]
    ELSE IF "id" \notin DOMAIN op \/ act \notin {"delete", "patch", "update", "status"}
    THEN err
    ELSE IF act = "delete"
    THEN IF i \in faults THEN err
         ELSE [st EXCEPT !.t = delete_item(@, o, op.id),
                         !.del = IF Has(st.t, o, op.id) THEN @ \cup {<<o, op.id>>} ELSE @,
                         !.results = Append(@, Entry(i, op, "delete"))]
    ELSE IF IsBare(OpPayload(op, act)) THEN err
    ELSE LET spec == update_spec_from_payload(OpPayload(op, act), now) IN
         IF ~spec.ok \/ i \in faults THEN err
         ELSE [st EXCEPT !.t = update_item(@, o, op.id, spec),
                         !.results = Append(@, Entry(i, op, "patch"))]

RECURSIVE BulkLoop(_, _, _, _, _, _)
BulkLoop(st, o, ops, i, faults, now) ==
    IF i > Len(ops) \/ st.crashed THEN st
    ELSE BulkLoop(BulkOp(st, o, i, ops[i], faults, now), o, ops, i + 1, faults, now)

BulkRun(o, ops, faults) ==
    BulkLoop([t |-> table, del |-> deleted, results |-> <<>>, errors |-> <<>>,
              crashed |-> FALSE], o, ops, 1, faults, clock)

Bulk(o, ops, faults) ==
    /\ nreq < MaxRequests
    /\ nreq' = nreq + 1
    /\ IF Len(ops) > BulkLimit
       THEN /\ resp' = Reply(nreq + 1, "bulk", o, ops, 400, "too many ops (<=50)")
            /\ UNCHANGED <<table, replica, deleted>>
       ELSE LET st == BulkRun(o, ops, faults) IN
            /\ table' = st.t
            /\ replica' = IF st.t = table THEN replica ELSE table
            /\ deleted' = st.del
            /\ resp' = IF st.crashed
                       THEN Reply(nreq + 1, "bulk", o, ops, 500, "AttributeError")
                       ELSE Reply(nreq + 1, "bulk", o, ops, 200,
                                  [ok |-> Len(st.errors) = 0, results |-> st.results,
                                   errors |-> st.errors])
    /\ UNCHANGED <<clock, mail, notify>>

\* --------------------------------------------------------- notify_overdue
\* SendFails without the EMAIL_FROM/EMAIL_TO check.
SendFails_NoConfigCheck(outcome) == outcome = "transport"

\* _send_overdue_email raises: outcome is "config" when EMAIL_FROM/EMAIL_TO
\* is missing, "transport" when ses.send_email raises, "sent" otherwise.
SendFails(outcome) == outcome \in {"config", "transport"}

TargetIds(targets) == {targets[i].task_id : i \in 1..Len(targets)}

\* The query (eventually consistent: no ConsistentRead), the target filter
\* and _send_overdue_email; now_s of _mark_notified is read as the send
\* returns.
NotifyScan(o, outcome) ==
    /\ nreq < MaxRequests
    /\ notify.pc = "idle"
    /\ nreq' = nreq + 1
    /\ LET targets == collect_overdue_targets(query(replica, o), clock) IN
       IF targets = <<>>
       THEN /\ resp' = Reply(nreq + 1, "notify", o, "", 200,
                             [sent |-> 0, notified |-> 0, message |-> "no overdue tasks"])
            /\ UNCHANGED <<mail, notify>>
       ELSE /\ mail' = [req |-> nreq + 1, outcome |-> outcome, ids |-> TargetIds(targets)]
            /\ IF SendFails(outcome)
               THEN /\ resp' = Reply(nreq + 1, "notify", o, "", 500,
                                     [sent |-> 0, error |-> outcome])
                    /\ notify' = notify
               ELSE /\ resp' = resp
                    /\ notify' = [pc |-> "mark", req |-> nreq + 1, owner |-> o,
                                  targets |-> targets, now |-> clock, idx |-> 1, cnt |-> 0]
    /\ UNCHANGED <<table, replica, clock, deleted>>

MarkSpec(now) ==
    [ok |-> TRUE,
     set |-> [k \in {"status"} |-> "overdue"] @@ One("overdue_notified_at", now)
             @@ One("updated_at", now),
     remove |-> {}]

\* One pass of the loop of _mark_notified (a store fault is swallowed); after
\* the last target the handler returns.
NotifyMark(fault) ==
    /\ notify.pc = "mark"
    /\ LET it == notify.targets[notify.idx]
           cnt == IF fault THEN notify.cnt ELSE notify.cnt + 1
       IN
       /\ IF fault THEN UNCHANGED <<table, replica>>
          ELSE /\ table' = update_item(table, notify.owner, it.task_id, MarkSpec(notify.now))
               /\ replica' = table
       /\ IF notify.idx < Len(notify.targets)
          THEN /\ notify' = [notify EXCEPT !.idx = @ + 1, !.cnt = cnt]
               /\ resp' = resp
          ELSE /\ notify' = Idle
               /\ resp' = Reply(notify.req, "notify", notify.owner, "", 200,
                                [sent |-> 1, target_count |-> Len(notify.targets),
                                 notified |-> cnt])
    /\ UNCHANGED <<clock, nreq, deleted, mail>>

\* ------------------------------------------------------------ environment
Tick ==
    /\ clock < MaxClock
    /\ clock' = clock + 1
    /\ UNCHANGED <<table, replica, nreq, resp, deleted, mail, notify>>

Replicate ==
    /\ replica # table
    /\ replica' = table
    /\ UNCHANGED <<table, clock, nreq, resp, deleted, mail, notify>>

\* ------------------------------------------------------------------ Next
\* The requests of owners O on task ids I with bodies B and bulk batches K.
NextOn(O, I, B, K) ==
    \/ Tick
    \/ Replicate
    \/ \E o \in O, id \in I, body \in B : Create(o, id, body)
    \/ \E o \in O : List(o)
    \/ \E o \in O, tid \in I, body \in B, fault \in BOOLEAN : Update(o, tid, body, fault)
    \/ \E o \in O, tid \in I : Delete(o, tid)
    \/ \E o \in O, ops \in K, faults \in SUBSET {1, 2} : Bulk(o, ops, faults)
    \/ \E o \in O, outcome \in {"config", "transport", "sent"} : NotifyScan(o, outcome)
    \/ \E fault \in BOOLEAN : NotifyMark(fault)

DelOp(id) == [id |-> id, action |-> "delete"]
PatchOp(id, act, payload) == [id |-> id, action |-> act, payload |-> payload]
Bare(s) == [bare |-> s]

Overdue == [title |-> "A", due_date |-> "T1Z"]

Bodies == { Overdue, [status |-> "done", due_date |-> "T2+00:00"] }
BulkBodies == { <<DelOp(2), PatchOp(1, "status", Bare("done"))>> }

Next == NextOn({"A"}, {1, 2}, Bodies, BulkBodies)

Spec == Init /\ [][Next]_vars

\* Payloads that set, remove and smuggle fields.
FieldBodies ==
    { [title |-> "A", due_date |-> "T1Z", details |-> "", parent_id |-> Null],
      [due_date |-> Null, details |-> "x", parent_id |-> "", updated_at |-> 0],
      [updated_at |-> 0, user_id |-> "B"] }
FieldBulk ==
    { <<PatchOp(1, "patch", [details |-> Null, updated_at |-> 0]),
        PatchOp(2, "update", [parent_id |-> "P", due_date |-> ""])>> }

NextFields == NextOn({"A"}, {1, 2}, FieldBodies, FieldBulk)

SpecFields == Init /\ [][NextFields]_vars

\* Payloads that reorder.
SortBodies ==
    { Overdue, [title |-> "B", due_date |-> "bad"], [sort |-> <<1>>], [sort |-> <<MissingSortKey>>],
      [sort |-> <<2000000000>>], [sort |-> <<>>] }

NextSort == NextOn({"A"}, {1, 2}, SortBodies, {<<DelOp(1)>>})

SpecSort == Init /\ [][NextSort]_vars

\* Bulk batches: good ops, each kind of failing op, and an over-long batch.
NoId == [action |-> "delete"]
Bogus == PatchOp(1, "bogus", [title |-> "x"])
NoFields == PatchOp(1, "update", Empty)
BadAction == [id |-> 2, action |-> NonString]
SetDone(id) == PatchOp(id, "status", Bare("done"))
Retitle(id) == PatchOp(id, "Patch", [title |-> "x"])
TooMany == [i \in 1..(BulkLimit + 1) |-> DelOp(1)]

BulkBatches ==
    { <<>>, <<DelOp(1)>>, <<[id |-> 1, action |-> "DELETE"], Retitle(2)>>,
      <<NoId, SetDone(1)>>, <<Bogus, DelOp(1)>>, <<NoFields, Retitle(1)>>,
      <<SetDone(1), Retitle(2), DelOp(1)>>, <<Retitle(1), PatchOp(2, "patch", Bare("x")), SetDone(2)>>,
      <<DelOp(1), BadAction, SetDone(1)>>, TooMany }

NextBulk == NextOn({"A"}, {1, 2}, {Overdue}, BulkBatches)

SpecBulk == Init /\ [][NextBulk]_vars

\* Two owners on one task id.
OwnerBodies == { Overdue, [status |-> "done", user_id |-> "B", task_id |-> 2] }
OwnerBulk == { <<DelOp(1)>>, <<PatchOp(1, "patch", [title |-> "x", user_id |-> "B"])>> }

NextOwners == NextOn({"A", "B"}, {1}, OwnerBodies, OwnerBulk)

SpecOwners == Init /\ [][NextOwners]_vars

\* ------------------------------------------------- which step was taken
Answered == resp'.req # resp.req
ScanBy(o) ==
    /\ nreq' = nreq + 1
    /\ \/ Answered /\ resp'.op = "notify" /\ resp'.owner = o
       \/ notify.pc = "idle" /\ notify'.pc = "mark" /\ notify'.owner = o

\* ================================================================ claims

\* C1: an Update whose payload has a recognised field, issued when no item
\* with key (owner, task_id) is in the store, answers 404 and leaves the
\* store unchanged (a store fault, answered 500, set aside).
C1_UpdateMissingIsNotFound ==
    [][(Answered /\ resp'.op = "update" /\ resp'.code \notin {400, 500}
        /\ ~Has(table, resp'.owner, resp'.arg.id))
       => (resp'.code = 404 /\ table' = table)]_vars

\* C2: a scan never selects, for another email, an item that carries
\* overdue_notified_at.
C2_NotifiedIsSticky ==
    [][(notify.pc = "idle" /\ notify'.pc = "mark")
       => \A i \in 1..Len(notify'.targets) :
             "overdue_notified_at" \notin DOMAIN notify'.targets[i]]_vars

\* The step in which _send_overdue_email raised.
C3_FailedSendStep ==
    (mail'.req # mail.req /\ mail'.outcome # "sent")
    => /\ table' = table
       /\ notify'.pc = "idle"
       /\ resp'.req = mail'.req /\ resp'.op = "notify" /\ resp'.code = 500
       /\ resp'.body.sent = 0 /\ "error" \in DOMAIN resp'.body

C3_MarkOnlyAfterSent ==
    notify.pc = "mark" => (mail.req = notify.req /\ mail.outcome = "sent")

\* C3: when a scan has targets and the send fails (configuration missing or
\* transport error), the response is 500 with sent=0 and an error, no item
\* is changed by that step, and no mark step ever runs for that send.
C3_SendFailureMutatesNothing == [][C3_FailedSendStep]_vars /\ []C3_MarkOnlyAfterSent

\* A send has failed on an open, unflagged target, which is still so.

C3_Witness ==
    /\ mail.outcome \in {"config", "transport"}
    /\ resp.req = mail.req /\ resp.op = "notify" /\ resp.code = 500
    /\ \E it \in table : /\ it.task_id \in mail.ids
                         /\ it.status = "open"
                         /\ "overdue_notified_at" \notin DOMAIN it

\* The step in which bulk_tasks answers.
Indexes(entries) == {entries[j].i : j \in 1..Len(entries)}
Ascending(entries) ==
    \A j, k \in 1..Len(entries) : j < k => entries[j].i < entries[k].i
LaterOn(results, j, act) ==
    \E k \in (j + 1)..Len(results) :
        results[k].id = results[j].id /\ results[k].action = act
C4_BulkStep ==
    (Answered /\ resp'.op = "bulk" /\ Len(resp'.arg) <= BulkLimit)
    => /\ resp'.code = 200
       /\ LET b == resp'.body  o == resp'.owner IN
          /\ Indexes(b.results) \cup Indexes(b.errors) = 1..Len(resp'.arg)
          /\ Indexes(b.results) \cap Indexes(b.errors) = {}
          /\ Len(b.results) + Len(b.errors) = Len(resp'.arg)
          /\ Ascending(b.results) /\ Ascending(b.errors)
          /\ b.ok <=> (b.errors = <<>>)
          /\ \A j \in 1..Len(b.results) :
                LET r == b.results[j] IN
                /\ (r.action = "delete" /\ ~LaterOn(b.results, j, "patch"))
                   => ~Has(table', o, r.id)
                /\ (r.action = "patch" /\ ~LaterOn(b.results, j, "delete"))
                   => /\ Has(table', o, r.id)
                      /\ Get(table', o, r.id).updated_at = clock

\* C4: a bulk batch of at most 50 ops answers with every op index in
\* exactly one of results and errors, in array order, ok being "no errors";
\* an op that succeeded has its effect in the store unless a later op of the
\* batch on the same id undid it.
C4_BulkIsolatesFailures == [][C4_BulkStep]_vars

\* What the builder does with the removable fields of a payload.
C5_BuilderRemoves ==
    \A p \in FieldBodies :
        LET sp == update_spec_from_payload(p, clock) IN
        sp.ok => /\ DOMAIN sp.set \cap sp.remove = {}
                 /\ \A k \in Removable \cap DOMAIN p :
                       IF p[k] \in {Null, ""}
                       THEN k \in sp.remove /\ k \notin DOMAIN sp.set
                       ELSE k \notin sp.remove /\ sp.set[k] = p[k]

C5_CreateOmits ==
    resp.op = "create"
    => \A k \in Removable : k \in DOMAIN resp.body <=> Truthy(resp.arg, k)

\* C5: the builder puts a null or "" due_date, parent_id or details in the
\* remove set and never in the set set, the two sets are disjoint, Create
\* stores only the non-empty ones, and no stored item holds one of the three
\* with a null or "" value.
C5_SparseFields ==
    /\ C5_BuilderRemoves
    /\ C5_CreateOmits
    /\ \A it \in table : \A k \in Removable \cap DOMAIN it : it[k] \notin {Null, ""}

\* An update with due_date null or "" has just removed the due_date the item had.
C5_Witness ==
    /\ resp.op = "update" /\ resp.code = 200
    /\ "due_date" \in DOMAIN resp.arg.payload
    /\ resp.arg.payload.due_date \in {Null, ""}
    /\ "due_date" \notin DOMAIN resp.body
    /\ resp.body \in table
    /\ \E old \in replica : /\ old.task_id = resp.arg.id
                            /\ "due_date" \in DOMAIN old

\* The step in which list_tasks answers.
C6_ListStep ==
    (Answered /\ resp'.op = "list" /\ resp'.code = 200)
    => LET b == resp'.body IN
       /\ {b[i] : i \in 1..Len(b)} = {it \in table : it.user_id = resp'.owner}
       /\ Len(b) = Cardinality({it \in table : it.user_id = resp'.owner})
       /\ \A i, j \in 1..Len(b) :
             i < j => /\ ("sort" \in DOMAIN b[i] /\ "sort" \in DOMAIN b[j])
                         => b[i].sort[1] <= b[j].sort[1]
                      /\ ~("sort" \notin DOMAIN b[i] /\ "sort" \in DOMAIN b[j])

\* C6: a list answers with exactly the owner's items, ascending by sort, the
\* items without sort after all the items with one.
C6_ListOrdered == [][C6_ListStep]_vars

\* The builder returns None exactly for the payloads without a recognised field.
C7_Builder ==
    \A p \in FieldBodies :
        LET sp == update_spec_from_payload(p, clock) IN
        /\ sp.ok <=> (DOMAIN p \cap Recognised # {})
        /\ sp.ok => sp.set.updated_at = clock

C7_UpdateStep ==
    (Answered /\ resp'.op = "update")
    => LET o == resp'.owner  id == resp'.arg.id  p == resp'.arg.payload IN
       /\ (DOMAIN p \cap Recognised = {}) => (resp'.code = 400 /\ table' = table)
       /\ (DOMAIN p \cap Recognised # {}) => resp'.code # 400
       /\ resp'.code = 200
          => /\ resp'.body.updated_at = clock
             /\ Get(table', o, id) = resp'.body
             /\ Has(table, o, id) => Get(table, o, id).updated_at <= resp'.body.updated_at

C7_BulkStep ==
    (Answered /\ resp'.op = "bulk" /\ resp'.code = 200)
    => \A j \in 1..Len(resp'.body.results) :
          LET r == resp'.body.results[j]  o == resp'.owner IN
          (r.action = "patch" /\ Has(table', o, r.id))
          => /\ Get(table', o, r.id).updated_at = clock
             /\ Has(table, o, r.id)
                => Get(table, o, r.id).updated_at <= Get(table', o, r.id).updated_at

\* C7: an Update whose payload has no recognised field answers 400 and
\* changes nothing; any other payload builds a mutation, and a successful
\* Update or bulk patch leaves the item with updated_at = now, which is not
\* below its previous value and is never the payload's updated_at.
C7_UpdatedAtAdvances == [](C7_Builder) /\ [][C7_UpdateStep /\ C7_BulkStep]_vars

\* An update carrying its own updated_at has moved the item's updated_at forward.
C7_Witness ==
    /\ resp.op = "update" /\ resp.code = 200
    /\ "updated_at" \in DOMAIN resp.arg.payload
    /\ resp.body.updated_at > resp.arg.payload.updated_at
    /\ \E old \in replica : /\ old.task_id = resp.arg.id
                            /\ old.updated_at < resp.body.updated_at

\* C8: a scan, and a list, that starts right after Create returned an open
\* task with a past due_date has that task among its targets, resp. in its
\* result.
C8_ReadsOwnWrites ==
    [][(resp.op = "create" /\ IsTarget(resp.body, clock))
       => /\ ScanBy(resp.owner)
             => (mail'.req = nreq' /\ resp.body.task_id \in mail'.ids)
          /\ (Answered /\ resp'.op = "list" /\ resp'.owner = resp.owner /\ resp'.code = 200)
             => \E i \in 1..Len(resp'.body) : resp'.body[i] = resp.body]_vars

\* The owner a step is taken for, and the task ids it addresses.
Actor(o) ==
    IF nreq' = nreq + 1
    THEN (Answered /\ resp'.owner = o) \/ (notify'.pc = "mark" /\ notify'.owner = o)
    ELSE notify.pc = "mark" /\ notify.owner = o

Keys(t) == {<<it.user_id, it.task_id>> : it \in t}
Addressed ==
    IF nreq' = nreq
    THEN {notify.targets[i].task_id : i \in 1..Len(notify.targets)}
    ELSE IF ~Answered THEN {}
    ELSE CASE resp'.op = "create" -> {resp'.body.task_id}
           [] resp'.op \in {"update"} -> {resp'.arg.id}
           [] resp'.op \in {"delete"} -> {resp'.arg}
           [] resp'.op = "bulk" /\ Len(resp'.arg) <= BulkLimit ->
                 {resp'.arg[i].id : i \in {j \in 1..Len(resp'.arg) : "id" \in DOMAIN resp'.arg[j]}}
           [] OTHER -> {}

C10_Step ==
    table' # table
    => \E o \in {"A", "B"} :
          /\ Actor(o)
          /\ {it \in table' : it.user_id # o} = {it \in table : it.user_id # o}
          /\ \A k \in (Keys(table') \ Keys(table)) \cup (Keys(table) \ Keys(table')) :
                k[1] = o /\ k[2] \in Addressed
          /\ \A it \in table : (it.user_id = o /\ it.task_id \notin Addressed) => it \in table'

C10_Answer ==
    /\ resp.op = "list" /\ resp.code = 200
       => \A i \in 1..Len(resp.body) : resp.body[i].user_id = resp.owner
    /\ resp.op \in {"create", "update"} /\ resp.code \in {200, 201}
       => resp.body.user_id = resp.owner
    /\ resp.op = "update" /\ resp.code = 200 => resp.body.task_id = resp.arg.id

\* C10: a step taken for owner o leaves every item of another owner as it
\* was, answers with items of o only, and changes no key but the one it
\* addresses: no payload moves an item to another user_id or task_id.
C10_OwnerScoped == []C10_Answer /\ [][C10_Step]_vars

\* Owner A has updated, with a payload naming user_id B, a task id on which B
\* holds an item of its own.
C10_Witness ==
    /\ resp.op = "update" /\ resp.code = 200 /\ resp.owner = "A"
    /\ "user_id" \in DOMAIN resp.arg.payload /\ resp.arg.payload.user_id = "B"
    /\ resp.body \in table
    /\ \E it \in table : it.user_id = "B" /\ it.task_id = resp.arg.id /\ it.title = "A"

\* C9: the key of a deleted task is never in the store again.
C9_DeletedStaysDeleted == \A k \in deleted : ~Has(table, k[1], k[2])
====
